---- MODULE Spec2Model ----
(***************************************************************************)
(* machop: the symbol resolution pipeline of src/src/main.rs.              *)
(*                                                                         *)
(* main() classifies its inputs into owned objects (objs: extracted from   *)
(* fat containers and archives), standalone objects (unowned_objs) and     *)
(* dynamic dependencies (dylibs), folds every object's symbols into the    *)
(* symbol table and the set of undefined names, resolves the undefined     *)
(* names against the exports of the tbd descriptors, groups the stored     *)
(* symbols by segment and section, and ends at the undefined-symbol gate.  *)
(*                                                                         *)
(* Spec is that pipeline.  The parts of the program that run before it     *)
(* have specifications of their own, further down: SpecArgs is             *)
(* Args::from_env (src/src/linker_args.rs), SpecSearch the search list and *)
(* the discovery of the libraries, SpecIngest the classification of the    *)
(* parsed inputs, SpecTbd is TbdDylib::parse and SpecArch is match_arch    *)
(* (src/src/tbd.rs).  SpecSeg is the pipeline again, over symbols that     *)
(* vary in section index and stab flag, and SpecParser is the Arguments    *)
(* parser of src/src/arg_parser.rs.  Each holds the variables of the       *)
(* others constant.                                                        *)
(*                                                                         *)
(* Outside the model: reading the input files and creating the output      *)
(* file are taken to succeed (std::fs errors are not modelled), and the    *)
(* predicates of goblin's Nlist (is_undefined, is_weak, is_stab) are the   *)
(* boolean fields of the nlist record.                                     *)
(***************************************************************************)
EXTENDS Integers, Sequences, FiniteSets, TLC

VARIABLES
    objs,               \* Vec<MachO>: owned objects, in extraction order
    unowned_objs,       \* Vec<&MachO>: standalone objects, in input order
    dylibs,             \* Vec<Dylib>: dynamic dependencies, in input order
    pc,                 \* position of main: the loop it is in, or its end
    oi,                 \* index of the current object (or dylib) of the loop
    si,                 \* index of the current symbol of the current object
    symbols,            \* HashMap<String, Symbol>
    undefined_symbols,  \* HashSet<String>
    segments,           \* segment -> section -> symbol name, as triples
    event,              \* what the last loop iteration did (log line or store)
    reported,           \* names logged as "<name> is undefined"
    output_file,        \* the output path: whether created, and its mode
    exit_code,          \* process exit status, -1 while running
    document,           \* tbd.rs: the text handed to TbdDylib::parse
    tbd_result,         \* tbd.rs: what TbdDylib::parse returned
    triple,             \* tbd.rs: the target triple handed to match_arch
    matched,            \* tbd.rs: what match_arch returned
    lld_args,           \* linker_args.rs: the parsed command line
    args,               \* linker_args.rs: the Args under construction
    files,              \* the paths that exist in the file system
    library_search_paths, \* main.rs: the search list used for discovery
    object_files,       \* main.rs: the paths main will read
    objects,            \* main.rs: the parsed inputs, one per path
    li,                 \* main.rs: index of the current library or input
    cli_pc,             \* position in from_env and in the head of main
    argv,               \* arg_parser.rs: the vector given to from_vec
    arguments,          \* arg_parser.rs: Arguments.0, what is left
    returned            \* arg_parser.rs: the last call and its result

mainVars == <<objs, unowned_objs, dylibs, pc, oi, si, symbols,
              undefined_symbols, segments, event, reported, output_file,
              exit_code>>
tbdVars == <<document, tbd_result>>
archVars == <<triple, matched>>
parserVars == <<argv, arguments, returned>>
headVars == <<files, library_search_paths, object_files, objects, li>>
cliVars == <<lld_args, args, headVars, cli_pc>>
vars == <<mainVars, tbdVars, archVars, cliVars, parserVars>>

(***************************************************************************)
(* Bounds of the inputs.                                                   *)
(***************************************************************************)
\* Total size of the input: one per symbol of an object, one per dynamic
\* dependency, one per name of a tbd descriptor's exports and weak_exports.
MaxInput == 3

Names == {"_main", "_helper"}

Range(s) == {s[k] : k \in 1..Len(s)}

(***************************************************************************)
(* The data model.                                                         *)
(***************************************************************************)
\* goblin's Nlist, as far as main reads it.
Nlist(sect, undef, weak, stab) ==
    [n_sect |-> sect, undefined |-> undef, weak |-> weak, stab |-> stab]

\* struct Symbol: name, nlist and the back-reference to the owning object.
Symbol(name, nlist, object) ==
    [name |-> name, nlist |-> nlist, object |-> object]

\* The back-reference Dylib::MachO(obj) of a Symbol: which list, which index.
OwnedRef(i) == [owned |-> TRUE, idx |-> i]
UnownedRef(i) == [owned |-> FALSE, idx |-> i]
ObjectOf(ref) == IF ref.owned THEN objs[ref.idx] ELSE unowned_objs[ref.idx]

\* struct TbdDylib, and the native dylib or executable of Dylib::MachO.
TbdDylib(install_name, reexported, exports, weak_exports) ==
    [kind |-> "tbd", install_name |-> install_name,
     reexported_libraries |-> reexported,
     exports |-> exports, weak_exports |-> weak_exports]
MachODylib == [kind |-> "macho"]

\* Exit status of a Rust panic (unwrap on None or Err, todo!, panic!).
PanicExit == 101

(***************************************************************************)
(* Inputs of the pipeline specification.                                   *)
(***************************************************************************)
\* Symbols of relocatable objects: an undefined reference has section 0; a
\* definition lies in section 1 of its object.  References and definitions
\* are each weak or not.
InputNlists ==
    {Nlist(0, TRUE, w, FALSE) : w \in BOOLEAN} \cup
    {Nlist(1, FALSE, w, FALSE) : w \in BOOLEAN}

InputSymbols == {[name |-> n, nlist |-> nl] : n \in Names, nl \in InputNlists}

TextSections == <<[segname |-> "__TEXT", sectname |-> "__text"]>>

\* Objects with exactly n symbols.  The symbol table of one object names a
\* symbol once: a name is defined or referenced there, not both.
Objects(n) ==
    {[symbols |-> s, sections |-> TextSections] :
        s \in {t \in [1..n -> InputSymbols] :
                 \A i, j \in 1..n : t[i].name = t[j].name => i = j}}

RECURSIVE SeqsOfLen(_, _)
SeqsOfLen(S, n) ==
    IF n = 0 THEN {<<>>}
    ELSE {<<x>> \o r : x \in S, r \in SeqsOfLen(S, n - 1)}

\* Lists of objects (each with at least one symbol) of at most b symbols.
RECURSIVE ObjLists(_)
ObjLists(b) ==
    {<<>>} \cup
    UNION {{<<o>> \o r : o \in Objects(k), r \in ObjLists(b - k)} : k \in 1..b}

RECURSIVE ObjListSize(_)
ObjListSize(l) ==
    IF l = <<>> THEN 0 ELSE Len(Head(l).symbols) + ObjListSize(Tail(l))

\* Dynamic dependencies of size exactly c.
DylibsOfSize(c) ==
    (IF c = 1 THEN {MachODylib} ELSE {}) \cup
    UNION {{TbdDylib("libdep", <<>>, e, w) :
              e \in SeqsOfLen(Names, k), w \in SeqsOfLen(Names, c - 1 - k)} :
           k \in 0..(c - 1)}

RECURSIVE DylibLists(_)
DylibLists(b) ==
    {<<>>} \cup
    UNION {{<<d>> \o r : d \in DylibsOfSize(c), r \in DylibLists(b - c)} : c \in 1..b}

(***************************************************************************)
(* Positions of main's loops.                                              *)
(***************************************************************************)
\* First object at or after index o that has a symbol; Len(list)+1 if none.
RECURSIVE SkipEmpty(_, _)
SkipEmpty(list, o) ==
    IF o > Len(list) THEN o
    ELSE IF Len(list[o].symbols) = 0 THEN SkipEmpty(list, o + 1)
    ELSE o

Pos(p, o, s) == [pc |-> p, oi |-> o, si |-> s]

\* Where main is once the standalone objects are exhausted.
AfterUnowned ==
    IF Len(dylibs) >= 1 THEN Pos("dylibs", 1, 1) ELSE Pos("segments", 1, 1)

\* Where main is once the owned objects are exhausted.
AfterOwned ==
    LET u == SkipEmpty(unowned_objs, 1)
    IN  IF u <= Len(unowned_objs) THEN Pos("unowned", u, 1) ELSE AfterUnowned

\* Where main starts: the first symbol of the first owned object.
StartPos ==
    LET o == SkipEmpty(objs, 1)
    IN  IF o <= Len(objs) THEN Pos("owned", o, 1) ELSE AfterOwned

\* The position after symbol s of object o of list, in loop p.
NextSymbolPos(p, list, o, s, after) ==
    IF s < Len(list[o].symbols) THEN Pos(p, o, s + 1)
    ELSE LET o2 == SkipEmpty(list, o + 1)
         IN  IF o2 <= Len(list) THEN Pos(p, o2, 1) ELSE after

\* The position after dylib d.
NextDylibPos(d) ==
    IF d < Len(dylibs) THEN Pos("dylibs", d + 1, 1) ELSE Pos("segments", 1, 1)

\* The symbol the current loop iteration reads.
CurInput ==
    IF pc = "owned" THEN objs[oi].symbols[si] ELSE unowned_objs[oi].symbols[si]

(***************************************************************************)
(* The symbol table builder.                                               *)
(***************************************************************************)
\* HashMap::insert on the symbol table.
Insert(tbl, name, symbol) ==
    [m \in (DOMAIN tbl) \cup {name} |-> IF m = name THEN symbol ELSE tbl[m]]

\* What one loop iteration leaves behind.
Outcome(tbl, und, ev, name) ==
    [symbols |-> tbl, undefined_symbols |-> und,
     event |-> [kind |-> ev, name |-> name]]

\* MergeOwned with a plausible slip: a second strong definition overwrites
\* the stored one.
MergeOwned_StrongOverwrites(tbl, und, symbol) ==
    LET name == symbol.name
    IN  IF name \in DOMAIN tbl
        THEN LET existing_symbol == tbl[name]
             IN  IF existing_symbol.nlist.weak /\ ~symbol.nlist.weak
                 THEN Outcome(Insert(tbl, name, symbol), und \ {name}, "replace", name)
                 ELSE IF ~existing_symbol.nlist.weak /\ ~symbol.nlist.weak
                 THEN Outcome(Insert(tbl, name, symbol), und, "warn", name)
                 ELSE Outcome(tbl, und, "trace", name)
        ELSE Outcome(Insert(tbl, name, symbol), und \ {name}, "insert", name)

\* MergeOwned with a plausible slip: a stored definition is not removed from
\* the undefined names.
MergeOwned_NoRemove(tbl, und, symbol) ==
    LET name == symbol.name
    IN  IF name \in DOMAIN tbl
        THEN LET existing_symbol == tbl[name]
             IN  IF existing_symbol.nlist.weak /\ ~symbol.nlist.weak
                 THEN Outcome(Insert(tbl, name, symbol), und, "replace", name)
                 ELSE IF ~existing_symbol.nlist.weak /\ ~symbol.nlist.weak
                 THEN Outcome(tbl, und, "warn", name)
                 ELSE Outcome(tbl, und, "trace", name)
        ELSE Outcome(Insert(tbl, name, symbol), und, "insert", name)

\* The weak/strong merge of the loop over the owned objects.
MergeOwned(tbl, und, symbol) ==
    LET name == symbol.name
    IN  IF name \in DOMAIN tbl
        THEN LET existing_symbol == tbl[name]
             IN  IF existing_symbol.nlist.weak /\ ~symbol.nlist.weak
                 THEN Outcome(Insert(tbl, name, symbol), und \ {name}, "replace", name)
                 ELSE IF ~existing_symbol.nlist.weak /\ ~symbol.nlist.weak
                 THEN Outcome(tbl, und, "warn", name)
                 ELSE Outcome(tbl, und, "trace", name)
        ELSE Outcome(Insert(tbl, name, symbol), und \ {name}, "insert", name)

\* The body of the loop over the symbols of the owned objects.
OwnedBody(tbl, und, symbol) ==
    IF symbol.nlist.undefined
    THEN Outcome(tbl, und \cup {symbol.name}, "undefined", symbol.name)
    ELSE MergeOwned(tbl, und, symbol)

\* The body of the loop over the symbols of the standalone objects: the same
\* merge, with no test of is_undefined before it.
UnownedBody(tbl, und, symbol) ==
    LET name == symbol.name
    IN  IF name \in DOMAIN tbl
        THEN LET existing_symbol == tbl[name]
             IN  IF existing_symbol.nlist.weak /\ ~symbol.nlist.weak
                 THEN Outcome(Insert(tbl, name, symbol), und \ {name}, "replace", name)
                 ELSE IF ~existing_symbol.nlist.weak /\ ~symbol.nlist.weak
                 THEN Outcome(tbl, und, "warn", name)
                 ELSE Outcome(tbl, und, "trace", name)
        ELSE Outcome(Insert(tbl, name, symbol), und \ {name}, "insert", name)

(***************************************************************************)
(* The dylib export resolver.                                              *)
(***************************************************************************)
\* ResolveExports with a plausible slip: insert written for remove.
ResolveExports_Inserts(und, tbd) == und \cup Range(tbd.exports)

\* for export in &tbd.exports: remove it from the undefined names.
ResolveExports(und, tbd) == und \ Range(tbd.exports)

(***************************************************************************)
(* Segment and section grouping.                                           *)
(***************************************************************************)
\* The stored symbols main looks up a section for.
Grouped(tbl) == {n \in DOMAIN tbl : tbl[n].nlist.n_sect # 0}

\* nth(section_index) is None: the unwrap panics.
SectionMissing(tbl) ==
    \E n \in Grouped(tbl) :
        tbl[n].nlist.n_sect - 1 >= Len(ObjectOf(tbl[n].object).sections)

\* The section a grouped symbol lies in: sections are 1-based in the nlist.
SectionOf(symbol) ==
    LET section_index == symbol.nlist.n_sect - 1
    IN  ObjectOf(symbol.object).sections[section_index + 1]

\* segments[segment_name][section_name][symbol.name], as triples.
GroupSegments(tbl) ==
    {<<SectionOf(tbl[n]).segname, SectionOf(tbl[n]).sectname, tbl[n].name>> :
        n \in Grouped(tbl)}

(***************************************************************************)
(* The undefined-symbol gate.                                              *)
(***************************************************************************)
NoOutput == [created |-> FALSE, mode |-> 0]

\* ExitGate with a plausible slip: the output file is created before the
\* set is tested.
ExitGate_CreateFirst(und) ==
    [reported |-> und,
     output_file |-> [created |-> TRUE, mode |-> 7 * 64 + 7 * 8 + 7],
     exit_code |-> IF und # {} THEN 1 ELSE 0]

\* A non-empty set is reported and ends the run with status 1; otherwise the
\* output file is created with mode 0o777 and main returns.
ExitGate(und) ==
    IF und # {}
    THEN [reported |-> und, output_file |-> NoOutput, exit_code |-> 1]
    ELSE [reported |-> {},
          output_file |-> [created |-> TRUE, mode |-> 7 * 64 + 7 * 8 + 7],
          exit_code |-> 0]

(***************************************************************************)
(* The pipeline as a state machine.                                        *)
(***************************************************************************)
NoEvent == [kind |-> "none", name |-> ""]

TypeStart ==
    /\ symbols = <<>>
    /\ undefined_symbols = {}
    /\ segments = {}
    /\ event = NoEvent
    /\ reported = {}
    /\ output_file = NoOutput
    /\ exit_code = -1

\* The state of the parts of the program that are not running: the tbd
\* parser, match_arch, and the command line with the head of main.
NoRecords == [kind |-> "records", records |-> <<>>]

NoResult == [done |-> FALSE]

TbdIdle == document = NoRecords /\ tbd_result = NoResult

ArchIdle == triple = <<>> /\ matched = NoResult

NoCall == [method |-> "none"]

ParserIdle == argv = <<>> /\ arguments = <<>> /\ returned = NoCall

CliIdle ==
    /\ lld_args = <<>>
    /\ args = NoResult
    /\ files = {}
    /\ library_search_paths = <<>>
    /\ object_files = <<>>
    /\ objects = <<>>
    /\ li = 1
    /\ cli_pc = "idle"

\* The state when the loop over the owned objects starts: the inputs are
\* classified, the table and the set are empty.
Init ==
    /\ objs \in ObjLists(MaxInput)
    /\ unowned_objs \in ObjLists(MaxInput - ObjListSize(objs))
    /\ dylibs \in DylibLists(MaxInput - ObjListSize(objs) - ObjListSize(unowned_objs))
    /\ pc = StartPos.pc /\ oi = StartPos.oi /\ si = StartPos.si
    /\ TypeStart
    /\ TbdIdle /\ ArchIdle /\ ParserIdle /\ CliIdle

Goto(p) == pc' = p.pc /\ oi' = p.oi /\ si' = p.si

Inputs == <<objs, unowned_objs, dylibs>>

\* One iteration of: for obj in &objs { for symbol in obj.symbols() {..} }
OwnedSymbol ==
    /\ pc = "owned"
    /\ LET r == OwnedBody(symbols, undefined_symbols,
                          Symbol(CurInput.name, CurInput.nlist, OwnedRef(oi)))
       IN  /\ symbols' = r.symbols
           /\ undefined_symbols' = r.undefined_symbols
           /\ event' = r.event
    /\ Goto(NextSymbolPos("owned", objs, oi, si, AfterOwned))
    /\ UNCHANGED <<Inputs, segments, reported, output_file, exit_code>>
    /\ UNCHANGED <<tbdVars, archVars, parserVars, cliVars>>

\* One iteration of: for obj in unowned_objs { for symbol in obj.symbols() {..} }
UnownedSymbol ==
    /\ pc = "unowned"
    /\ LET r == UnownedBody(symbols, undefined_symbols,
                            Symbol(CurInput.name, CurInput.nlist, UnownedRef(oi)))
       IN  /\ symbols' = r.symbols
           /\ undefined_symbols' = r.undefined_symbols
           /\ event' = r.event
    /\ Goto(NextSymbolPos("unowned", unowned_objs, oi, si, AfterUnowned))
    /\ UNCHANGED <<Inputs, segments, reported, output_file, exit_code>>
    /\ UNCHANGED <<tbdVars, archVars, parserVars, cliVars>>

\* One iteration of: for dylib in dylibs, on a tbd descriptor.
DylibTbd ==
    /\ pc = "dylibs"
    /\ dylibs[oi].kind = "tbd"
    /\ undefined_symbols' = ResolveExports(undefined_symbols, dylibs[oi])
    /\ event' = [kind |-> "resolve", name |-> dylibs[oi].install_name]
    /\ Goto(NextDylibPos(oi))
    /\ UNCHANGED <<Inputs, symbols, segments, reported, output_file, exit_code>>
    /\ UNCHANGED <<tbdVars, archVars, parserVars, cliVars>>

Panic ==
    /\ pc' = "panicked"
    /\ exit_code' = PanicExit
    /\ event' = [kind |-> "panic", name |-> ""]

\* One iteration of: for dylib in dylibs, on a native dylib: todo!().
DylibMachO ==
    /\ pc = "dylibs"
    /\ dylibs[oi].kind = "macho"
    /\ Panic
    /\ UNCHANGED <<Inputs, oi, si, symbols, undefined_symbols, segments,
                   reported, output_file>>
    /\ UNCHANGED <<tbdVars, archVars, parserVars, cliVars>>

\* The loop over symbols.values() that builds the segment map.
Segments ==
    /\ pc = "segments"
    /\ IF SectionMissing(symbols)
       THEN Panic /\ UNCHANGED <<oi, si, segments>>
       ELSE /\ segments' = GroupSegments(symbols)
            /\ event' = [kind |-> "grouped", name |-> ""]
            /\ Goto(Pos("gate", 1, 1))
            /\ UNCHANGED exit_code
    /\ UNCHANGED <<Inputs, symbols, undefined_symbols, reported, output_file>>
    /\ UNCHANGED <<tbdVars, archVars, parserVars, cliVars>>

\* The end of main: report and exit(1), or create the output file.
Gate ==
    /\ pc = "gate"
    /\ LET g == ExitGate(undefined_symbols)
       IN  /\ reported' = g.reported
           /\ output_file' = g.output_file
           /\ exit_code' = g.exit_code
    /\ pc' = "done"
    /\ event' = [kind |-> "exit", name |-> ""]
    /\ UNCHANGED <<Inputs, oi, si, symbols, undefined_symbols, segments>>
    /\ UNCHANGED <<tbdVars, archVars, parserVars, cliVars>>

Next ==
    \/ OwnedSymbol
    \/ UnownedSymbol
    \/ DylibTbd
    \/ DylibMachO
    \/ Segments
    \/ Gate

Spec == Init /\ [][Next]_vars

(***************************************************************************)
(* The input as one stream, for the properties below.                      *)
(***************************************************************************)
\* The symbols of a list of objects in processing order, each with the
\* back-reference main gives it.
RECURSIVE Flatten(_, _, _)
Flatten(list, owned, o) ==
    IF o > Len(list) THEN <<>>
    ELSE [k \in 1..Len(list[o].symbols) |->
            Symbol(list[o].symbols[k].name, list[o].symbols[k].nlist,
                   [owned |-> owned, idx |-> o])]
         \o Flatten(list, owned, o + 1)

\* Owned objects first, then standalone objects.
InputStream == Flatten(objs, TRUE, 1) \o Flatten(unowned_objs, FALSE, 1)

RECURSIVE CountBefore(_, _)
CountBefore(list, o) ==
    IF o <= 1 THEN 0 ELSE Len(list[o - 1].symbols) + CountBefore(list, o - 1)

InSymbolLoops == pc \in {"owned", "unowned"}

\* How many symbols of InputStream the loops have processed.
NumProcessed ==
    IF pc = "owned" THEN CountBefore(objs, oi) + si - 1
    ELSE IF pc = "unowned"
    THEN Len(Flatten(objs, TRUE, 1)) + CountBefore(unowned_objs, oi) + si - 1
    ELSE Len(InputStream)

IsDefinition(sym) == ~sym.nlist.undefined
IsReference(sym) == sym.nlist.undefined

\* Positions of InputStream that hold a definition of name x.
DefIdx(x) ==
    {k \in 1..Len(InputStream) : InputStream[k].name = x /\ IsDefinition(InputStream[k])}

Referenced(n) ==
    \E k \in 1..Len(InputStream) : InputStream[k].name = n /\ IsReference(InputStream[k])

Defined(n) == DefIdx(n) # {}

Exported(n) ==
    \E d \in 1..Len(dylibs) :
        /\ dylibs[d].kind = "tbd"
        /\ n \in Range(dylibs[d].exports) \cup Range(dylibs[d].weak_exports)

\* An undefined reference to n is among the symbols processed so far.
ReferenceProcessed(n) ==
    \E k \in 1..NumProcessed : InputStream[k].name = n /\ IsReference(InputStream[k])

(***************************************************************************)
(* C1.  When an undefined reference to a name n is processed while a       *)
(* definition of n is stored in the symbol table, n is not added to the    *)
(* set of undefined names.                                                 *)
(***************************************************************************)
C1_ReferenceAfterDefinitionNotAdded ==
    [][(/\ InSymbolLoops
        /\ IsReference(CurInput)
        /\ CurInput.name \in DOMAIN symbols
        /\ IsDefinition(symbols[CurInput.name])
        /\ CurInput.name \notin undefined_symbols)
       => CurInput.name \notin undefined_symbols']_vars

(***************************************************************************)
(* C2.  In every run that reaches the gate, a name that some object        *)
(* (owned or standalone) references as undefined, that no object defines   *)
(* and that no tbd descriptor exports, is reported, the run exits with     *)
(* status 1 and the output file is not created.                            *)
(***************************************************************************)
C2_MissingSymbolFails ==
    pc = "done" =>
        \A n \in Names :
            (Referenced(n) /\ ~Defined(n) /\ ~Exported(n))
            => (exit_code = 1 /\ n \in reported /\ ~output_file.created)

(***************************************************************************)
(* C3.  Object A defines strong _main and references undefined _helper,    *)
(* object B defines weak _helper: whatever the order of A and B and        *)
(* whether each is owned or standalone, the run ends with no undefined     *)
(* name and exit status 0.                                                 *)
(***************************************************************************)
IsStrongDefOf(sym, n) ==
    sym.name = n /\ IsDefinition(sym) /\ ~sym.nlist.weak
IsWeakDefOf(sym, n) ==
    sym.name = n /\ IsDefinition(sym) /\ sym.nlist.weak

IsObjectA(o) ==
    /\ Len(o.symbols) = 2
    /\ \E k \in 1..2 :
        /\ IsStrongDefOf(o.symbols[k], "_main")
        /\ o.symbols[3 - k].name = "_helper"
        /\ IsReference(o.symbols[3 - k])

IsObjectB(o) ==
    Len(o.symbols) = 1 /\ IsWeakDefOf(o.symbols[1], "_helper")

ScenarioAB ==
    LET all == objs \o unowned_objs
    IN  /\ dylibs = <<>>
        /\ Len(all) = 2
        /\ \E a \in 1..2 : IsObjectA(all[a]) /\ IsObjectB(all[3 - a])

C3_WeakHelperResolves ==
    (pc = "done" /\ ScenarioAB) => (undefined_symbols = {} /\ exit_code = 0)

(***************************************************************************)
(* C4.  Every entry of the symbol table is a definition: a symbol whose    *)
(* undefined flag is set is never stored.                                  *)
(***************************************************************************)
C4_OnlyDefinitionsStored ==
    \A n \in DOMAIN symbols : IsDefinition(symbols[n])

(***************************************************************************)
(* C5.  For a name x with one weak and one strong definition, in either    *)
(* order, the symbol table entry for x after the symbol loops is the       *)
(* strong definition.                                                      *)
(***************************************************************************)
OneWeakOneStrong(x) ==
    /\ Cardinality(DefIdx(x)) = 2
    /\ \E k, l \in DefIdx(x) :
        InputStream[k].nlist.weak /\ ~InputStream[l].nlist.weak

C5_StrongOverWeak ==
    \A x \in Names :
        (~InSymbolLoops /\ OneWeakOneStrong(x))
        => /\ x \in DOMAIN symbols
           /\ \E l \in DefIdx(x) :
                ~InputStream[l].nlist.weak /\ symbols[x] = InputStream[l]

(***************************************************************************)
(* C6.  When the definitions of a name x are all weak, the symbol table    *)
(* entry for x after the symbol loops is the first of them in processing   *)
(* order.                                                                  *)
(***************************************************************************)
OnlyWeakDefinitions(x) ==
    DefIdx(x) # {} /\ \A k \in DefIdx(x) : InputStream[k].nlist.weak

FirstDef(x) == CHOOSE k \in DefIdx(x) : \A l \in DefIdx(x) : k <= l

C6_FirstWeakKept ==
    \A x \in Names :
        (~InSymbolLoops /\ OnlyWeakDefinitions(x))
        => (x \in DOMAIN symbols /\ symbols[x] = InputStream[FirstDef(x)])

(***************************************************************************)
(* C7.  When a strong definition of a name is processed while a strong     *)
(* definition of that name is stored, the table and the undefined names    *)
(* stay as they are, a warning is logged, no exit status is set and main   *)
(* goes on to the next symbol.                                             *)
(***************************************************************************)
\* The position main takes after the current symbol.
NextInLoop ==
    IF pc = "owned" THEN NextSymbolPos("owned", objs, oi, si, AfterOwned)
    ELSE NextSymbolPos("unowned", unowned_objs, oi, si, AfterUnowned)

C7_DuplicateStrongOnlyWarns ==
    [][(/\ InSymbolLoops
        /\ IsStrongDefOf(CurInput, CurInput.name)
        /\ CurInput.name \in DOMAIN symbols
        /\ IsStrongDefOf(symbols[CurInput.name], CurInput.name))
       => (/\ symbols' = symbols
           /\ undefined_symbols' = undefined_symbols
           /\ event' = [kind |-> "warn", name |-> CurInput.name]
           /\ exit_code' = -1
           /\ pc' = NextInLoop.pc /\ oi' = NextInLoop.oi /\ si' = NextInLoop.si)]_vars

\* A second strong definition was just processed, the first is still stored
\* and symbols remain to be processed.
C7_Witness ==
    /\ InSymbolLoops
    /\ NumProcessed >= 2
    /\ event.kind = "warn"
    /\ IsStrongDefOf(InputStream[NumProcessed], event.name)
    /\ IsStrongDefOf(symbols[event.name], event.name)
    /\ symbols[event.name] # InputStream[NumProcessed]

(***************************************************************************)
(* C8.  When a definition of y is processed after an undefined reference   *)
(* to y, and the definition is stored (as a new entry or in place of a     *)
(* weak one), y is not among the undefined names right after that step.    *)
(***************************************************************************)
C8_DefinitionResolvesEarlierReference ==
    [][(/\ InSymbolLoops
        /\ IsDefinition(CurInput)
        /\ ReferenceProcessed(CurInput.name)
        /\ \/ CurInput.name \notin DOMAIN symbols
           \/ symbols[CurInput.name].nlist.weak /\ ~CurInput.nlist.weak)
       => (/\ CurInput.name \notin undefined_symbols'
           /\ CurInput.name \in DOMAIN symbols'
           /\ symbols'[CurInput.name].nlist = CurInput.nlist)]_vars

\* A definition was just stored whose name an owned object referenced
\* earlier, which had put the name among the undefined names.
C8_Witness ==
    /\ NumProcessed >= 2
    /\ event.kind \in {"insert", "replace"}
    /\ IsDefinition(InputStream[NumProcessed])
    /\ InputStream[NumProcessed].name = event.name
    /\ \E k \in 1..(NumProcessed - 1) :
        /\ InputStream[k].name = event.name
        /\ IsReference(InputStream[k])
        /\ InputStream[k].object.owned
    /\ event.name \notin undefined_symbols

(***************************************************************************)
(* C9.  Processing a tbd descriptor removes from the undefined names       *)
(* every name that is in the descriptor's exports or in its weak_exports.  *)
(***************************************************************************)
C9_ExportsAndWeakExportsResolve ==
    [][(pc = "dylibs" /\ dylibs[oi].kind = "tbd")
       => undefined_symbols' \cap
            (Range(dylibs[oi].exports) \cup Range(dylibs[oi].weak_exports)) = {}]_vars

MaxRecords == 3
MaxSuffix == 2

ARM64 == "ARM64"

\* impl Display for Architecture: ARM64 is written "arm64".
ArchToString(arch) ==
    IF arch = ARM64 THEN <<"a", "r", "m", "6", "4">> ELSE <<>>

\* str::starts_with
starts_with(s, prefix) ==
    /\ Len(prefix) <= Len(s)
    /\ \A i \in 1..Len(prefix) : s[i] = prefix[i]

\* match_arch with a plausible slip: the prefix is tested without the dash.
match_arch_NoDash(arch, t) ==
    ArchToString(arch) = t \/ starts_with(t, ArchToString(arch))

\* arch == triple || triple.starts_with(&format!("{arch}-"))
match_arch(arch, t) ==
    ArchToString(arch) = t \/ starts_with(t, ArchToString(arch) \o <<"-">>)

\* v4.targets.iter().any(|triple| match_arch(arch, triple))
AnyTarget(arch, targets) ==
    \E i \in 1..Len(targets) : match_arch(arch, targets[i])

RECURSIVE Concat(_)
Concat(ss) == IF ss = <<>> THEN <<>> ELSE Head(ss) \o Concat(Tail(ss))

\* The fields of the groups of the matching targets, one after the other.
Matching(arch, groups, field) ==
    Concat([i \in 1..Len(groups) |->
              IF AnyTarget(arch, groups[i].targets)
              THEN groups[i][field] ELSE <<>>])

None == [some |-> FALSE]
Some(v) == [some |-> TRUE, value |-> v]

\* parse_one with a plausible slip: a record of version 3 is read like one
\* of version 4.
parse_one_AcceptsV3(arch, tbd) ==
    IF tbd.version < 3 \/ ~AnyTarget(arch, tbd.targets) THEN None
    ELSE Some(TbdDylib(tbd.install_name,
                       Matching(arch, tbd.reexported_libraries, "libraries"),
                       Matching(arch, tbd.exports, "symbols")
                         \o Matching(arch, tbd.re_exports, "symbols"),
                       Matching(arch, tbd.exports, "weak_symbols")
                         \o Matching(arch, tbd.re_exports, "weak_symbols")))

\* One record: None for versions 1 to 3 and for a version 4 record without
\* a matching target; otherwise the descriptor of the matching groups.
parse_one(arch, tbd) ==
    IF tbd.version # 4 \/ ~AnyTarget(arch, tbd.targets) THEN None
    ELSE Some(TbdDylib(tbd.install_name,
                       Matching(arch, tbd.reexported_libraries, "libraries"),
                       Matching(arch, tbd.exports, "symbols")
                         \o Matching(arch, tbd.re_exports, "symbols"),
                       Matching(arch, tbd.exports, "weak_symbols")
                         \o Matching(arch, tbd.re_exports, "weak_symbols")))

\* parse_str(text)?.into_iter().filter_map(parse_one): the descriptors of the
\* records that parse_one keeps, in document order.
RECURSIVE FilterMap(_, _)
FilterMap(arch, records) ==
    IF records = <<>> THEN <<>>
    ELSE LET r == parse_one(arch, Head(records))
         IN  (IF r.some THEN <<r.value>> ELSE <<>>)
               \o FilterMap(arch, Tail(records))

\* TakeMain with a plausible slip: tbds.pop() instead of tbds.remove(0).
TakeMain_Pop(tbds) ==
    [main |-> tbds[Len(tbds)], tbds |-> SubSeq(tbds, 1, Len(tbds) - 1)]

\* let mut main = tbds.remove(0);
TakeMain(tbds) == [main |-> Head(tbds), tbds |-> Tail(tbds)]

\* tbds_by_install_name.get(&lib): collecting into the HashMap keeps, for an
\* install name, the last descriptor that carries it.
Lookup(tbds, lib) ==
    LET at == {i \in 1..Len(tbds) : tbds[i].install_name = lib}
    IN  IF at = {} THEN None
        ELSE Some(tbds[CHOOSE i \in at : \A j \in at : j <= i])

Visited(exports, weak_exports, reexported_libs) ==
    [exports |-> exports, weak_exports |-> weak_exports,
     reexported_libs |-> reexported_libs]

\* visit with a plausible slip: the children's own reexports are followed.
RECURSIVE visit_Transitive(_, _, _)
visit_Transitive(tbds, libs, acc) ==
    IF libs = <<>> THEN acc
    ELSE LET child == Lookup(tbds, Head(libs))
             here == IF child.some
                     THEN Visited(acc.exports \o child.value.exports,
                                  acc.weak_exports \o child.value.weak_exports,
                                  acc.reexported_libs)
                     ELSE Visited(acc.exports, acc.weak_exports,
                                  acc.reexported_libs \o <<Head(libs)>>)
             below == IF child.some
                      THEN visit_Transitive(
                               SelectSeq(tbds, LAMBDA t : t # child.value),
                               child.value.reexported_libraries, here)
                      ELSE here
         IN  visit_Transitive(tbds, Tail(libs), below)

\* The closure visit, on the reexported libraries libs of one descriptor: a
\* library found among tbds gives its exports and weak exports, a library
\* not found is pushed to reexported_libs.
RECURSIVE visit(_, _, _)
visit(tbds, libs, acc) ==
    IF libs = <<>> THEN acc
    ELSE LET child == Lookup(tbds, Head(libs))
         IN  visit(tbds, Tail(libs),
                   IF child.some
                   THEN Visited(acc.exports \o child.value.exports,
                                acc.weak_exports \o child.value.weak_exports,
                                acc.reexported_libs)
                   ELSE Visited(acc.exports, acc.weak_exports,
                                acc.reexported_libs \o <<Head(libs)>>))

Ok(v) == [done |-> TRUE, kind |-> "ok", value |-> v]
Err(e) == [done |-> TRUE, kind |-> "err", error |-> e]
Panicked == [done |-> TRUE, kind |-> "panic"]

\* TbdDylib::parse
parse(arch, content) ==
    IF content.kind = "invalid_utf8" THEN Panicked
    ELSE IF content.kind = "malformed" THEN Err("ParseError")
    ELSE LET tbds == FilterMap(arch, content.records)
         IN  IF tbds = <<>> THEN Err("NoValidDocument")
             ELSE LET t == TakeMain(tbds)
                      v == visit(t.tbds, t.main.reexported_libraries,
                                 Visited(<<>>, <<>>, <<>>))
                  IN  Ok(TbdDylib(
                          t.main.install_name,
                          t.main.reexported_libraries \o v.reexported_libs,
                          t.main.exports \o v.exports,
                          t.main.weak_exports \o v.weak_exports))

(***************************************************************************)
(* TbdDylib::parse as a state machine: a document is handed in, parse      *)
(* returns.                                                                *)
(***************************************************************************)
Arm64MacOS == <<"a", "r", "m", "6", "4", "-", "m", "a", "c", "o", "s">>
X86MacOS == <<"x", "8", "6", "_", "6", "4", "-", "m", "a", "c", "o", "s">>

Libs == {"libA", "libB", "libC"}

\* The symbols a library of the inputs declares: a symbol and a weak symbol
\* for arm64, a symbol for x86_64 only, and a symbol it re-exports.
SymbolsOf(lib) ==
    CASE lib = "libA" -> [sym |-> "_a", weak |-> "_a_weak",
                          x86 |-> "_a_x86", re |-> "_a_re"]
      [] lib = "libB" -> [sym |-> "_b", weak |-> "_b_weak",
                          x86 |-> "_b_x86", re |-> "_b_re"]
      [] lib = "libC" -> [sym |-> "_c", weak |-> "_c_weak",
                          x86 |-> "_c_x86", re |-> "_c_re"]

ExportGroup(targets, syms, weak_syms) ==
    [targets |-> targets, symbols |-> syms, weak_symbols |-> weak_syms]

ReexportGroup(targets, libraries) ==
    [targets |-> targets, libraries |-> libraries]

TbdRecord(version, install_name, targets, reexported_libraries) ==
    [version |-> version, install_name |-> install_name, targets |-> targets,
     reexported_libraries |-> reexported_libraries,
     exports |->
        <<ExportGroup(<<X86MacOS, Arm64MacOS>>,
                      <<SymbolsOf(install_name).sym>>,
                      <<SymbolsOf(install_name).weak>>),
          ExportGroup(<<X86MacOS>>, <<SymbolsOf(install_name).x86>>, <<>>)>>,
     re_exports |->
        <<ExportGroup(<<Arm64MacOS>>, <<SymbolsOf(install_name).re>>, <<>>)>>]

\* What a record of the inputs lists as reexported: nothing, another
\* library for arm64, or another library for x86_64 only.
ReexportChoices(lib) ==
    {<<>>}
      \cup {<<ReexportGroup(<<Arm64MacOS>>, <<l>>)>> : l \in Libs \ {lib}}
      \cup {<<ReexportGroup(<<X86MacOS>>, <<l>>)>> : l \in Libs \ {lib}}

\* The records of the inputs: version 4 records for arm64 and x86_64,
\* version 4 records for x86_64 only, and records of versions 1 to 3.
Records ==
    UNION {{TbdRecord(4, n, <<X86MacOS, Arm64MacOS>>, r) :
              r \in ReexportChoices(n)} : n \in Libs}
      \cup {TbdRecord(4, n, <<X86MacOS>>, <<>>) : n \in Libs}
      \cup {TbdRecord(v, "libA", <<Arm64MacOS>>, <<>>) : v \in 1..3}

Documents ==
    {[kind |-> "invalid_utf8", records |-> <<>>],
     [kind |-> "malformed", records |-> <<>>]}
      \cup UNION {[kind : {"records"}, records : [1..n -> Records]] :
                    n \in 0..MaxRecords}

MainIdle ==
    /\ objs = <<>> /\ unowned_objs = <<>> /\ dylibs = <<>>
    /\ pc = "idle" /\ oi = 1 /\ si = 1
    /\ TypeStart

TbdInit ==
    /\ document \in Documents
    /\ tbd_result = NoResult
    /\ MainIdle /\ ArchIdle /\ ParserIdle /\ CliIdle

\* TbdDylib::parse(Architecture::ARM64, content)
Parse ==
    /\ ~tbd_result.done
    /\ tbd_result' = parse(ARM64, document)
    /\ UNCHANGED <<document, mainVars, archVars, parserVars, cliVars>>

TbdNext == Parse

SpecTbd == TbdInit /\ [][TbdNext]_vars

(***************************************************************************)
(* Claims about TbdDylib::parse and match_arch.                            *)
(***************************************************************************)
\* "arm64", or "arm64-" followed by anything.
IsArm64Triple(t) ==
    /\ Len(t) >= 5
    /\ SubSeq(t, 1, 5) = <<"a", "r", "m", "6", "4">>
    /\ Len(t) > 5 => t[6] = "-"

ForArm64(targets) == \E i \in 1..Len(targets) : IsArm64Triple(targets[i])

\* The records of the document that are of version 4 and for arm64.
Kept(rs) == {i \in 1..Len(rs) : rs[i].version = 4 /\ ForArm64(rs[i].targets)}

FirstKept(rs) == CHOOSE i \in Kept(rs) : \A j \in Kept(rs) : i <= j

\* The install names of the child records: the kept records after the main.
ChildNames(rs) == {rs[i].install_name : i \in Kept(rs) \ {FirstKept(rs)}}

\* The arm64 reexported identities of a record, in order.
ReexportedBy(r) ==
    Concat([i \in 1..Len(r.reexported_libraries) |->
              IF ForArm64(r.reexported_libraries[i].targets)
              THEN r.reexported_libraries[i].libraries ELSE <<>>])

Returned == tbd_result.done /\ tbd_result.kind = "ok"

\* C11: after parse the main descriptor's reexported_libraries is exactly the
\* list of its arm64 reexported identities that are not found among the child
\* records, each once; an identity found among the children is removed.
C11_OutstandingReexports ==
    Returned =>
        LET rs == document.records
            main == rs[FirstKept(rs)]
        IN  tbd_result.value.reexported_libraries =
              SelectSeq(ReexportedBy(main), LAMBDA l : l \notin ChildNames(rs))

\* The records named lib that are children of the main record.
ChildrenNamed(rs, lib) ==
    {i \in Kept(rs) \ {FirstKept(rs)} : rs[i].install_name = lib}

\* The main record reexports c, a child named c reexports g, g is a child,
\* and g is neither the main record nor reexported by it.
Grandchild(rs, c, g) ==
    LET main == rs[FirstKept(rs)]
    IN  /\ c \in Range(ReexportedBy(main))
        /\ \E i \in ChildrenNamed(rs, c) : g \in Range(ReexportedBy(rs[i]))
        /\ ChildrenNamed(rs, g) # {}
        /\ g \notin Range(ReexportedBy(main)) \cup {main.install_name, c}

AllSymbolsOf(lib) ==
    {SymbolsOf(lib).sym, SymbolsOf(lib).weak, SymbolsOf(lib).x86,
     SymbolsOf(lib).re}

\* C12: inlining is one hop: when the main record reexports child c and c
\* reexports grandchild g, the descriptor holds c's exports and weak exports
\* and none of g's symbols.
C12_OneHopOnly ==
    Returned =>
        \A c \in Libs, g \in Libs :
            Grandchild(document.records, c, g) =>
                LET all == Range(tbd_result.value.exports)
                             \cup Range(tbd_result.value.weak_exports)
                IN  /\ SymbolsOf(c).sym \in Range(tbd_result.value.exports)
                    /\ SymbolsOf(c).re \in Range(tbd_result.value.exports)
                    /\ SymbolsOf(c).weak \in Range(tbd_result.value.weak_exports)
                    /\ all \cap AllSymbolsOf(g) = {}

C12_Witness ==
    /\ Returned
    /\ \E c \in Libs, g \in Libs :
          /\ Grandchild(document.records, c, g)
          /\ SymbolsOf(c).sym \in Range(tbd_result.value.exports)

\* C13 as stated: the descriptor carries the install name of the first
\* record of the document.
C13_FirstRecordIsMain ==
    Returned =>
        tbd_result.value.install_name = document.records[1].install_name

\* C13, amended: the descriptor is built from the first record of the
\* document that is of version 4 and for arm64: it carries that record's
\* install name and starts with that record's own exports; every other
\* symbol it holds comes from a library that record reexports.
C13_FirstKeptRecordIsMain ==
    Returned =>
        LET rs == document.records
            main == rs[FirstKept(rs)]
            own == SymbolsOf(main.install_name)
        IN  /\ tbd_result.value.install_name = main.install_name
            /\ SubSeq(tbd_result.value.exports, 1, 2) = <<own.sym, own.re>>
            /\ SubSeq(tbd_result.value.weak_exports, 1, 1) = <<own.weak>>
            /\ Range(tbd_result.value.exports)
                 \cup Range(tbd_result.value.weak_exports)
                 \subseteq UNION {AllSymbolsOf(l) :
                             l \in {main.install_name}
                                     \cup Range(ReexportedBy(main))}

C13_Witness ==
    /\ Returned
    /\ 1 \notin Kept(document.records)
    /\ tbd_result.value.install_name # document.records[1].install_name
    /\ Len(tbd_result.value.exports) > 2

\* The document without its records of versions 1 to 3.
WithoutOld(doc) ==
    [doc EXCEPT !.records = SelectSeq(doc.records, LAMBDA r : r.version = 4)]

\* C14: for a document that parses, parse returns NoValidDocument exactly
\* when no record is of version 4 with an arm64 target, and the records of
\* versions 1 to 3 do not change what parse returns.
C14_NoValidDocument ==
    (tbd_result.done /\ document.kind = "records") =>
        /\ tbd_result = Err("NoValidDocument") <=> Kept(document.records) = {}
        /\ tbd_result = parse(ARM64, WithoutOld(document))

C14_Witness ==
    /\ tbd_result = Err("NoValidDocument")
    /\ \E i \in 1..Len(document.records) :
          /\ document.records[i].version = 3
          /\ ForArm64(document.records[i].targets)
    /\ \E i \in 1..Len(document.records) : document.records[i].version = 4

(***************************************************************************)
(* match_arch as a state machine: a triple is handed in, match_arch        *)
(* answers.                                                                *)
(***************************************************************************)
Arm64AppleMacos13 ==
    <<"a", "r", "m", "6", "4", "-", "a", "p", "p", "l", "e", "-",
      "m", "a", "c", "o", "s", "1", "3">>
X86AppleMacos13 ==
    <<"x", "8", "6", "_", "6", "4", "-", "a", "p", "p", "l", "e", "-",
      "m", "a", "c", "o", "s", "1", "3">>

TripleChars == {"a", "6", "4", "-", "_", "e"}

\* The triples of the inputs: a prefix of "arm64-" followed by at most
\* MaxSuffix characters, and the triples of real stubs.
Triples ==
    {SubSeq(ArchToString(ARM64) \o <<"-">>, 1, k) \o t :
        k \in 0..6, t \in UNION {[1..n -> TripleChars] : n \in 0..MaxSuffix}}
      \cup {Arm64AppleMacos13, X86AppleMacos13, Arm64MacOS, X86MacOS}

ArchInit ==
    /\ triple \in Triples
    /\ matched = NoResult
    /\ MainIdle /\ TbdIdle /\ CliIdle /\ ParserIdle

\* match_arch(&Architecture::ARM64, triple)
MatchArch ==
    /\ ~matched.done
    /\ matched' = [done |-> TRUE, value |-> match_arch(ARM64, triple)]
    /\ UNCHANGED <<triple, mainVars, tbdVars, cliVars, parserVars>>

ArchNext == MatchArch

SpecArch == ArchInit /\ [][ArchNext]_vars

\* C15: match_arch(ARM64, triple) holds exactly when triple is "arm64" or
\* starts with "arm64-": "arm64" and "arm64-apple-macos13" match,
\* "x86_64-apple-macos13" does not.
C15_MatchArch ==
    matched.done =>
        /\ matched.value <=> IsArm64Triple(triple)
        /\ triple = <<"a", "r", "m", "6", "4">> => matched.value
        /\ triple = Arm64AppleMacos13 => matched.value
        /\ triple = X86AppleMacos13 => ~matched.value

C15_Witness ==
    /\ matched.done
    /\ matched.value
    /\ triple = Arm64AppleMacos13

(***************************************************************************)
(* src/src/linker_args.rs: Args::from_env.                                 *)
(*                                                                         *)
(* lld_args is what llvm_command_parser returns for the command line: a    *)
(* sequence of parsed arguments.  A directory is the sequence of its       *)
(* components, "/" standing for the root; a file is a directory and a      *)
(* file name, and a file name is a sequence of characters.                 *)
(***************************************************************************)
\* Most arguments of the command line before -arch and -o.
MaxArgs == 2

File(dir, name) == [dir |-> dir, name |-> name]

\* An argument value that names a directory, and one that is read as text.
Dir(dir) == File(dir, <<>>)
OsStr(chars) == [chars |-> chars]

Positional(value) == [kind |-> "Positional", value |-> value]
Flag(option) == [kind |-> "Flag", option |-> option]
SingleValue(option, value) ==
    [kind |-> "SingleValue", option |-> option, value |-> value]
MultipleValues(option, values) ==
    [kind |-> "MultipleValues", option |-> option, values |-> values]
\* Unknown, SingleValueKeyed, CommaValues and MultipleValuesKeyed.
Unhandled(kind) == [kind |-> kind]

\* str::to_lowercase on the letters of the inputs.
to_lowercase(s) ==
    [i \in 1..Len(s) |->
        CASE s[i] = "A" -> "a" [] s[i] = "R" -> "r" [] s[i] = "M" -> "m"
          [] OTHER -> s[i]]

\* impl FromStr for Architecture
ArchitectureFromStr(s) ==
    IF to_lowercase(s) = <<"a", "r", "m", "6", "4">>
    THEN Ok(ARM64) ELSE Err("Unknown architecture")

\* impl FromStr for PlatformVersion, on values.join(" ").
PlatformVersionFromStr(values) ==
    IF Len(values) # 3 THEN Err("Expected 3 parts")
    ELSE Ok([platform |-> values[1], min_version |-> values[2],
             sdk_version |-> values[3]])

\* The locals of from_env before its loop.
FromEnvLocals ==
    [done |-> FALSE, next |-> 1,
     object_files |-> <<>>, libraries |-> <<>>, sys_lib_root |-> None,
     dynamic |-> FALSE, no_deduplicate |-> FALSE, demangle |-> FALSE,
     output_file |-> None, platform_version |-> None,
     library_search_paths |-> <<>>, arch |-> None]

Continue(l) == [kind |-> "continue", locals |-> l]
Exit(code) == [done |-> TRUE, kind |-> "exit", code |-> code]

\* The body of: for lld_arg in lld_args.parsed() { match lld_arg {..} }
MatchArg(l, a) ==
    CASE a.kind = "Positional" ->
            Continue([l EXCEPT !.object_files = @ \o <<a.value>>])
      [] a.kind = "Flag" ->
            IF a.option = "-help" THEN Exit(1)
            ELSE IF a.option = "-dynamic"
            THEN Continue([l EXCEPT !.dynamic = TRUE])
            ELSE IF a.option = "-no_deduplicate"
            THEN Continue([l EXCEPT !.no_deduplicate = TRUE])
            ELSE IF a.option = "-demangle"
            THEN Continue([l EXCEPT !.demangle = TRUE])
            ELSE Continue(l)
      [] a.kind = "SingleValue" ->
            IF a.option = "-o"
            THEN Continue([l EXCEPT !.output_file = Some(a.value)])
            ELSE IF a.option = "-arch"
            THEN LET r == ArchitectureFromStr(a.value.chars)
                 IN  IF r.kind = "ok"
                     THEN Continue([l EXCEPT !.arch = Some(r.value)])
                     ELSE r
            ELSE IF a.option = "-lto_library" THEN Continue(l)
            ELSE IF a.option = "-syslibroot"
            THEN Continue([l EXCEPT !.sys_lib_root = Some(a.value.dir)])
            ELSE IF a.option = "-L"
            THEN Continue([l EXCEPT
                             !.library_search_paths = @ \o <<a.value.dir>>])
            ELSE IF a.option = "-l"
            THEN Continue([l EXCEPT !.libraries = @ \o <<a.value.chars>>])
            ELSE Continue(l)
      [] a.kind = "MultipleValues" ->
            IF a.option = "-platform_version"
            THEN LET r == PlatformVersionFromStr(a.values)
                 IN  IF r.kind = "ok"
                     THEN Continue([l EXCEPT !.platform_version = Some(r.value)])
                     ELSE r
            ELSE Continue(l)
      [] OTHER -> Continue(l)

\* The end of from_env: -arch and -o are required.
BuildArgs(l) ==
    IF ~l.arch.some THEN Err("-arch must be provided")
    ELSE IF ~l.output_file.some THEN Err("-output_file must be provided")
    ELSE Ok([arch |-> l.arch.value,
             library_search_paths |-> l.library_search_paths,
             libraries |-> l.libraries,
             output_file |-> l.output_file.value,
             object_files |-> l.object_files,
             sys_lib_root |-> l.sys_lib_root,
             demangle |-> l.demangle,
             deduplicate |-> ~l.no_deduplicate,
             dynamic |-> l.dynamic,
             platform_version |-> l.platform_version])

\* from_env as a function of the parsed command line.
RECURSIVE FromEnvFrom(_, _)
FromEnvFrom(l, rest) ==
    IF rest = <<>> THEN BuildArgs(l)
    ELSE LET r == MatchArg(l, Head(rest))
         IN  IF r.kind = "continue" THEN FromEnvFrom(r.locals, Tail(rest))
             ELSE r

from_env(parsed) == FromEnvFrom(FromEnvLocals, parsed)

(***************************************************************************)
(* Args::from_env as a state machine.                                      *)
(***************************************************************************)
ObjectO == <<"m", ".", "o">>
ObjectRlib == <<"m", ".", "r", "l", "i", "b">>
ArchiveA == <<"m", ".", "a">>
NotesTxt == <<"m", ".", "t", "x", "t">>
NoExtension == <<"m">>

OutPath == File(<<>>, <<"o", "u", "t">>)

ArgChoices ==
    {Positional(File(<<>>, n)) :
        n \in {ObjectO, ObjectRlib, ArchiveA, NotesTxt, NoExtension}}
      \cup {Positional(File(<<"b">>, NotesTxt))}
      \cup {Flag(o) : o \in {"-help", "-dynamic", "-no_deduplicate",
                             "-demangle", "-dead_strip"}}
      \cup {SingleValue("-arch", OsStr(<<"x", "8", "6", "_", "6", "4">>)),
            SingleValue("-arch", OsStr(<<"A", "R", "M", "6", "4">>)),
            SingleValue("-lto_library", File(<<>>, <<"l", "t", "o">>)),
            SingleValue("-syslibroot", Dir(<<"/", "sdk">>)),
            SingleValue("-L", Dir(<<"/", "a">>)),
            SingleValue("-l", OsStr(<<"z">>)),
            SingleValue("-e", OsStr(<<"_", "m">>))}
      \cup {MultipleValues("-platform_version", <<"macos", "13", "13">>),
            MultipleValues("-platform_version", <<"macos", "13">>),
            MultipleValues("-rpath", <<"a", "b">>)}
      \cup {Unhandled(k) : k \in {"Unknown", "SingleValueKeyed", "CommaValues",
                                  "MultipleValuesKeyed"}}

\* The end of a command line: as the compiler driver writes it, or without
\* the required options.
ArgTails ==
    {<<>>,
     <<SingleValue("-o", OutPath)>>,
     <<SingleValue("-arch", OsStr(<<"a", "r", "m", "6", "4">>)),
       SingleValue("-o", OutPath)>>}

CommandLines ==
    {h \o t : h \in UNION {[1..n -> ArgChoices] : n \in 0..MaxArgs},
              t \in ArgTails}

ArgsInit ==
    /\ lld_args \in CommandLines
    /\ args = FromEnvLocals
    /\ cli_pc = "from_env"
    /\ files = {} /\ library_search_paths = <<>>
    /\ object_files = <<>> /\ objects = <<>> /\ li = 1
    /\ MainIdle /\ TbdIdle /\ ArchIdle /\ ParserIdle

\* One iteration of the loop of from_env.
FromEnvArg ==
    /\ cli_pc = "from_env"
    /\ args.next <= Len(lld_args)
    /\ LET r == MatchArg(args, lld_args[args.next])
       IN  IF r.kind = "continue"
           THEN /\ args' = [r.locals EXCEPT !.next = @ + 1]
                /\ UNCHANGED cli_pc
           ELSE /\ args' = r
                /\ cli_pc' = IF r.kind = "exit" THEN "exited" ELSE "failed"
    /\ UNCHANGED <<lld_args, headVars, mainVars, tbdVars, archVars, parserVars>>

\* After the loop: from_env returns Ok(Args), or the error main unwraps.
FromEnvReturn ==
    /\ cli_pc = "from_env"
    /\ args.next > Len(lld_args)
    /\ args' = BuildArgs(args)
    /\ cli_pc' = IF BuildArgs(args).kind = "ok" THEN "main" ELSE "failed"
    /\ UNCHANGED <<lld_args, headVars, mainVars, tbdVars, archVars, parserVars>>

ArgsNext == FromEnvArg \/ FromEnvReturn

SpecArgs == ArgsInit /\ [][ArgsNext]_vars

\* Path::extension: the characters after the last '.' of the file name, if
\* the name has a '.' after its first character.
Dots(name) == {i \in 2..Len(name) : name[i] = "."}

Extension(name) ==
    IF Dots(name) = {} THEN <<>>
    ELSE SubSeq(name, (CHOOSE i \in Dots(name) : \A j \in Dots(name) : j <= i) + 1,
                Len(name))

Succeeded == args.done /\ args.kind = "ok"

ObjectExtensions == {<<"o">>, <<"r", "l", "i", "b">>, <<"a">>}

\* C20: a positional argument is kept as an object-file path only when its
\* extension is o, rlib or a: no other positional is in Args.object_files.
C20_PositionalsFiltered ==
    Succeeded =>
        \A i \in 1..Len(args.value.object_files) :
            Extension(args.value.object_files[i].name) \in ObjectExtensions

(***************************************************************************)
(* src/src/main.rs, lines 103 to 140: the search list and the discovery    *)
(* of the libraries.                                                       *)
(***************************************************************************)
\* Most -L options of the command line.
MaxPaths == 2

\* The components of the directories of the inputs in the order of
\* Ord for std::path::Component: the root before every name, names by their
\* bytes.
ComponentOrder == <<"/", "a", "lib", "local", "sdk", "usr", "vendor", "w">>

Rank(c) == CHOOSE i \in 1..Len(ComponentOrder) : ComponentOrder[i] = c

\* Ord for PathBuf: the components are compared one by one.
RECURSIVE PathLess(_, _)
PathLess(p, q) ==
    IF q = <<>> THEN FALSE
    ELSE IF p = <<>> THEN TRUE
    ELSE IF Head(p) # Head(q) THEN Rank(Head(p)) < Rank(Head(q))
    ELSE PathLess(Tail(p), Tail(q))

\* Vec::sort
RECURSIVE Sort(_)
Sort(paths) ==
    IF paths = <<>> THEN <<>>
    ELSE LET rest == Sort(Tail(paths))
             before == SelectSeq(rest, LAMBDA q : ~PathLess(Head(paths), q))
             after == SelectSeq(rest, LAMBDA q : PathLess(Head(paths), q))
         IN  before \o <<Head(paths)>> \o after

\* Vec::dedup: of consecutive equal elements the first is kept.
RECURSIVE Dedup(_)
Dedup(paths) ==
    IF Len(paths) < 2 THEN paths
    ELSE IF paths[1] = paths[2] THEN Dedup(Tail(paths))
    ELSE <<Head(paths)>> \o Dedup(Tail(paths))

SystemDirs == <<(<<"/", "usr", "lib">>), (<<"/", "usr", "local", "lib">>)>>

\* append(["/usr/lib", "/usr/local/lib"]), sort(), dedup()
WithSystemDirs(paths) == Dedup(Sort(paths \o SystemDirs))

\* Path::starts_with("/")
StartsWithRoot(path) == path # <<>> /\ Head(path) = "/"

\* Path::join: an absolute path replaces the path it is joined to.
Join(base, path) == IF StartsWithRoot(path) THEN path ELSE base \o path

\* The closure of the sysroot map: the path without its leading separator,
\* if it has one, joined to the root.
Rewrite(root, path) ==
    Join(root, IF StartsWithRoot(path) THEN Tail(path) ELSE path)

\* let library_search_paths = if let Some(ref root) = args.sys_lib_root ..
Resolved(a) ==
    IF a.sys_lib_root.some
    THEN [i \in 1..Len(a.library_search_paths) |->
            Rewrite(a.sys_lib_root.value, a.library_search_paths[i])]
    ELSE a.library_search_paths

\* The index of the last '.' of a file name after its first character, 0
\* if there is none: where Path::file_stem ends.
RECURSIVE LastDot(_, _)
LastDot(name, i) ==
    IF i < 2 THEN 0
    ELSE IF name[i] = "." THEN i
    ELSE LastDot(name, i - 1)

\* Path::with_extension: the extension replaces what follows the last '.'.
with_extension(name, extension) ==
    LET d == LastDot(name, Len(name))
    IN  (IF d = 0 THEN name ELSE SubSeq(name, 1, d - 1))
          \o <<".">> \o extension

extensions == <<(<<"t", "b", "d">>), (<<"d", "y", "l", "i", "b">>), (<<"a">>)>>

\* prefix.join(&format!("lib{}", library_name)).with_extension(extension)
Candidate(prefix, library_name, extension) ==
    File(prefix, with_extension(<<"l", "i", "b">> \o library_name, extension))

\* The first path of the sequence that exists.
RECURSIVE FirstExisting(_, _)
FirstExisting(fs, candidates) ==
    IF candidates = <<>> THEN None
    ELSE IF Head(candidates) \in fs THEN Some(Head(candidates))
    ELSE FirstExisting(fs, Tail(candidates))

\* discover_library_path with a plausible slip: the extensions are the
\* outer loop.
discover_library_path_ByExtension(fs, locations, library_name) ==
    FirstExisting(fs,
        Concat([e \in 1..Len(extensions) |->
                  [p \in 1..Len(locations) |->
                     Candidate(locations[p], library_name, extensions[e])]]))

\* discover_library_path: for prefix in locations, for extension in
\* extensions, the first candidate that exists.
discover_library_path(fs, locations, library_name) ==
    FirstExisting(fs,
        Concat([p \in 1..Len(locations) |->
                  [e \in 1..Len(extensions) |->
                     Candidate(locations[p], library_name, extensions[e])]]))

(***************************************************************************)
(* The head of main as a state machine, from the return of from_env to the *)
(* end of the loop over args.libraries.                                    *)
(***************************************************************************)
UserDirs ==
    {<<"/", "a">>, <<"/", "w">>, <<"/", "usr", "lib">>, <<"vendor", "lib">>}

Sysroot == <<"/", "sdk">>

LibraryNames == {<<"z">>, <<"z", ".", "1">>}

FilePool ==
    {File(<<"/", "a">>, <<"l", "i", "b", "z", ".", "a">>),
     File(<<"/", "a">>, <<"l", "i", "b", "z", ".", "1", ".", "t", "b", "d">>),
     File(<<"/", "a">>, <<"l", "i", "b", "z", ".", "t", "b", "d">>),
     File(<<"/", "w">>, <<"l", "i", "b", "z", ".", "t", "b", "d">>),
     File(<<"/", "usr", "lib">>, <<"l", "i", "b", "z", ".", "d", "y", "l", "i", "b">>),
     File(<<"/", "sdk", "usr", "lib">>, <<"l", "i", "b", "z", ".", "t", "b", "d">>),
     File(<<"vendor", "lib">>, <<"l", "i", "b", "z", ".", "a">>)}

\* The command lines of the inputs: -L options, -syslibroot or not, one -l
\* option, -arch arm64 and -o.
SearchCommandLines ==
    {ls \o r \o <<SingleValue("-l", OsStr(n)),
                 SingleValue("-arch", OsStr(<<"a", "r", "m", "6", "4">>)),
                 SingleValue("-o", OutPath)>> :
        ls \in UNION {[1..k -> {SingleValue("-L", Dir(d)) : d \in UserDirs}] :
                        k \in 0..MaxPaths},
        r \in {<<>>, <<SingleValue("-syslibroot", Dir(Sysroot))>>},
        n \in LibraryNames}

\* from_env has returned.
SearchInit ==
    /\ lld_args \in SearchCommandLines
    /\ args = from_env(lld_args)
    /\ files \in SUBSET FilePool
    /\ library_search_paths = <<>>
    /\ object_files = <<>> /\ objects = <<>> /\ li = 1
    /\ cli_pc = "main"
    /\ MainIdle /\ TbdIdle /\ ArchIdle /\ ParserIdle

\* Lines 104 to 109: the system directories are appended, the list is
\* sorted and deduplicated.
AppendSystemDirs ==
    /\ cli_pc = "main"
    /\ args' = [args EXCEPT !.value.library_search_paths = WithSystemDirs(@)]
    /\ cli_pc' = "sysroot"
    /\ UNCHANGED <<lld_args, headVars, mainVars, tbdVars, archVars, parserVars>>

\* Lines 113 to 131: object_files starts as the positionals, and the search
\* list is rewritten under the sysroot.
ResolveSearchPaths ==
    /\ cli_pc = "sysroot"
    /\ object_files' = args.value.object_files
    /\ library_search_paths' = Resolved(args.value)
    /\ li' = 1
    /\ cli_pc' = IF args.value.libraries = <<>> THEN "read" ELSE "discover"
    /\ UNCHANGED <<lld_args, args, files, objects, mainVars, tbdVars, archVars, parserVars>>

\* One iteration of: for library in &args.libraries
Discover ==
    /\ cli_pc = "discover"
    /\ LET found == discover_library_path(files, library_search_paths,
                                          args.value.libraries[li])
       IN  object_files' = IF found.some THEN object_files \o <<found.value>>
                           ELSE object_files
    /\ li' = li + 1
    /\ cli_pc' = IF li = Len(args.value.libraries) THEN "read" ELSE "discover"
    /\ UNCHANGED <<lld_args, args, files, library_search_paths, objects,
                   mainVars, tbdVars, archVars, parserVars>>

SearchNext == AppendSystemDirs \/ ResolveSearchPaths \/ Discover

SpecSearch == SearchInit /\ [][SearchNext]_vars

(***************************************************************************)
(* Claims about the search list and the discovery.                         *)
(***************************************************************************)
Searched == cli_pc \in {"discover", "read"}

\* The candidates that exist, as (directory index, extension index).
Hits ==
    {h \in (1..Len(library_search_paths)) \X (1..Len(extensions)) :
        Candidate(library_search_paths[h[1]], args.value.libraries[1],
                  extensions[h[2]]) \in files}

\* In the order of the claim: directories first, extensions second.
HitBefore(g, h) == g[1] < h[1] \/ (g[1] = h[1] /\ g[2] < h[2])

LibZ(ext) == <<"l", "i", "b", "z", ".">> \o ext

\* C16: discover_library_path returns the first existing candidate, the
\* directories in list order being the outer loop and the extensions tbd,
\* dylib, a the inner loop, and None when no candidate exists: libz.a in an
\* earlier directory beats libz.tbd in a later one.
C16_DirectoryOrderFirst ==
    cli_pc = "read" =>
        /\ Hits = {} => object_files = args.value.object_files
        /\ \A h \in Hits :
              (\A g \in Hits : ~HitBefore(g, h)) =>
                  object_files = args.value.object_files
                    \o <<Candidate(library_search_paths[h[1]],
                                   args.value.libraries[1], extensions[h[2]])>>
        /\ (/\ args.value.libraries[1] = <<"z">>
            /\ library_search_paths[1] = <<"/", "a">>
            /\ files \cap {File(<<"/", "a">>, LibZ(extensions[e])) : e \in 1..3}
                 = {File(<<"/", "a">>, LibZ(extensions[3]))})
              => object_files = <<File(<<"/", "a">>, LibZ(extensions[3]))>>

C16_Witness ==
    /\ cli_pc = "read"
    /\ object_files = <<File(<<"/", "a">>, LibZ(extensions[3]))>>
    /\ File(<<"/", "w">>, LibZ(extensions[1])) \in files
    /\ \E i \in 1..Len(library_search_paths) :
          library_search_paths[i] = <<"/", "w">>

\* The directories given with -L on the command line.
UserSupplied ==
    {lld_args[i].value.dir :
        i \in {k \in 1..Len(lld_args) : lld_args[k].kind = "SingleValue"
                                          /\ lld_args[k].option = "-L"}}

\* C17: /usr/lib and /usr/local/lib have the lowest precedence: in the list
\* used for discovery every directory given with -L comes before them.
C17_SystemDirsLast ==
    Searched =>
        /\ Len(library_search_paths) = Len(args.value.library_search_paths)
        /\ \A i, j \in 1..Len(args.value.library_search_paths) :
              (/\ args.value.library_search_paths[i]
                    \in UserSupplied \ Range(SystemDirs)
               /\ args.value.library_search_paths[j] \in Range(SystemDirs))
                  => i < j

\* C18: with a sysroot every absolute search path is replaced by the
\* sysroot joined with the path without its leading separator, and every
\* relative search path is passed through unchanged.
C18_SysrootRewrite ==
    (Searched /\ args.value.sys_lib_root.some) =>
        /\ Len(library_search_paths) = Len(args.value.library_search_paths)
        /\ \A i \in 1..Len(library_search_paths) :
              LET path == args.value.library_search_paths[i]
              IN  library_search_paths[i] =
                    IF Head(path) = "/"
                    THEN args.value.sys_lib_root.value \o Tail(path)
                    ELSE path

(***************************************************************************)
(* src/src/main.rs, lines 163 to 227: the parsed inputs are classified     *)
(* into objs, unowned_objs and dylibs.                                     *)
(*                                                                         *)
(* A Mach-O file is its header: the file type and the CPU type.  A slice   *)
(* of a fat container is the CPU type its fat_arch entry declares and what *)
(* fat.get returns for it.                                                 *)
(***************************************************************************)
\* Total size of the inputs: one per input, per slice and per member.
MaxIngest == 3

\* goblin::mach::cputype and goblin::mach::header
CPU_ARCH_ABI64 == 16777216
CPU_TYPE_X86 == 7
CPU_TYPE_ARM == 12
CPU_TYPE_POWERPC == 18
CPU_TYPE_X86_64 == CPU_TYPE_X86 + CPU_ARCH_ABI64
CPU_TYPE_ARM64 == CPU_TYPE_ARM + CPU_ARCH_ABI64
MH_OBJECT == 1
MH_EXECUTE == 2
MH_DYLIB == 6
MH_BUNDLE == 8

\* a & b on u32
RECURSIVE BitAnd(_, _)
BitAnd(a, b) ==
    IF a = 0 \/ b = 0 THEN 0
    ELSE (a % 2) * (b % 2) + 2 * BitAnd(a \div 2, b \div 2)

MachOFile(filetype, cputype) == [filetype |-> filetype, cputype |-> cputype]

\* MachO::is_object_file
is_object_file(macho) == macho.filetype = MH_OBJECT

\* The closure of position: arch.cputype() & CPU_TYPE_ARM64 != 0
IsTargetArch(arch) == BitAnd(arch.cputype, CPU_TYPE_ARM64) # 0

\* fat.iter_arches().position(..): the first slice the closure accepts, 0
\* for None.
ArchPosition(arches) ==
    LET at == {i \in 1..Len(arches) : IsTargetArch(arches[i])}
    IN  IF at = {} THEN 0 ELSE CHOOSE i \in at : \A j \in at : i <= j

\* The members of an archive that are object files, in order.
ObjectMembers(members) == SelectSeq(members, is_object_file)

\* What the loop body does with one input: the objects it pushes, or a
\* panic.
Pushed(o, u, d) == [panic |-> FALSE, objs |-> o, unowned_objs |-> u, dylibs |-> d]
Aborted == [panic |-> TRUE]

\* Mach::Fat: the slice at arch_position, if there is one and fat.get
\* returns it.
ClassifyFat(fat) ==
    LET arch_position == ArchPosition(fat.arches)
    IN  IF arch_position = 0 THEN Aborted
        ELSE LET entry == fat.arches[arch_position].entry
             IN  CASE entry.kind = "MachO" ->
                        Pushed(IF is_object_file(entry.macho)
                               THEN <<entry.macho>> ELSE <<>>,
                               <<>>, <<>>)
                   [] entry.kind = "Archive" ->
                        Pushed(ObjectMembers(entry.members), <<>>, <<>>)
                   [] OTHER -> Aborted

\* Mach::Binary
ClassifyBinary(macho) ==
    IF is_object_file(macho) THEN Pushed(<<>>, <<macho>>, <<>>)
    ELSE IF macho.filetype \in {MH_EXECUTE, MH_DYLIB}
    THEN Pushed(<<>>, <<>>, <<MachODylib>>)
    ELSE Aborted

\* Object::Archive
ClassifyArchive(archive) ==
    Pushed(ObjectMembers(archive.members), <<>>, <<>>)

(***************************************************************************)
(* The classification as a state machine.                                  *)
(***************************************************************************)
Members == {MachOFile(f, CPU_TYPE_ARM64) : f \in {MH_OBJECT, MH_DYLIB}}

MemberLists(n) == [1..n -> Members]

\* The slices of size c: a Mach-O file, an entry fat.get fails on, or an
\* archive of c - 1 members.
SlicesOfSize(c) ==
    LET cpus == {CPU_TYPE_X86_64, CPU_TYPE_ARM64, CPU_TYPE_POWERPC}
    IN  (IF c = 1
         THEN {[cputype |-> t, entry |-> [kind |-> "MachO", macho |-> MachOFile(f, t)]] :
                  t \in cpus, f \in {MH_OBJECT, MH_DYLIB}}
                \cup {[cputype |-> t, entry |-> [kind |-> "Malformed"]] : t \in cpus}
         ELSE {})
          \cup {[cputype |-> t, entry |-> [kind |-> "Archive", members |-> m]] :
                  t \in cpus, m \in MemberLists(c - 1)}

RECURSIVE SliceLists(_)
SliceLists(b) ==
    IF b = 0 THEN {<<>>}
    ELSE UNION {{<<s>> \o r : s \in SlicesOfSize(c), r \in SliceLists(b - c)} :
                  c \in 1..b}

LibSystem == TbdDylib("libSystem", <<>>, <<"_main">>, <<>>)

\* The inputs of size c.
InputsOfSize(c) ==
    (IF c = 1
     THEN {[kind |-> "Elf"], [kind |-> "PE"], [kind |-> "Tbd", tbd |-> LibSystem]}
            \cup {[kind |-> "Binary", macho |-> MachOFile(f, CPU_TYPE_ARM64)] :
                    f \in {MH_OBJECT, MH_EXECUTE, MH_DYLIB, MH_BUNDLE}}
     ELSE {})
      \cup {[kind |-> "Archive", members |-> m] : m \in MemberLists(c - 1)}
      \cup {[kind |-> "Fat", arches |-> a] : a \in SliceLists(c - 1)}

RECURSIVE InputLists(_)
InputLists(b) ==
    {<<>>} \cup
    UNION {{<<o>> \o r : o \in InputsOfSize(c), r \in InputLists(b - c)} :
             c \in 1..b}

IngestInit ==
    /\ objects \in InputLists(MaxIngest)
    /\ li = 1
    /\ cli_pc = IF objects = <<>> THEN "pipeline" ELSE "ingest"
    /\ lld_args = <<>> /\ args = NoResult /\ files = {}
    /\ library_search_paths = <<>> /\ object_files = <<>>
    /\ MainIdle /\ TbdIdle /\ ArchIdle /\ ParserIdle

\* The end of one iteration of: for (i, object) in objects.iter().enumerate()
Classified(r) ==
    /\ IF r.panic
       THEN /\ cli_pc' = "panicked"
            /\ exit_code' = PanicExit
            /\ UNCHANGED <<objs, unowned_objs, dylibs, li>>
       ELSE /\ objs' = objs \o r.objs
            /\ unowned_objs' = unowned_objs \o r.unowned_objs
            /\ dylibs' = dylibs \o r.dylibs
            /\ li' = li + 1
            /\ cli_pc' = IF li = Len(objects) THEN "pipeline" ELSE "ingest"
            /\ UNCHANGED exit_code
    /\ UNCHANGED <<pc, oi, si, symbols, undefined_symbols, segments, event,
                   reported, output_file>>
    /\ UNCHANGED <<lld_args, args, files, library_search_paths, object_files,
                   objects, tbdVars, archVars, parserVars>>

\* Object::Elf(_) => todo!(), Object::PE(_) => todo!()
IngestForeign ==
    /\ cli_pc = "ingest"
    /\ objects[li].kind \in {"Elf", "PE"}
    /\ Classified(Aborted)

IngestFat ==
    /\ cli_pc = "ingest"
    /\ objects[li].kind = "Fat"
    /\ Classified(ClassifyFat(objects[li]))

IngestBinary ==
    /\ cli_pc = "ingest"
    /\ objects[li].kind = "Binary"
    /\ Classified(ClassifyBinary(objects[li].macho))

IngestArchive ==
    /\ cli_pc = "ingest"
    /\ objects[li].kind = "Archive"
    /\ Classified(ClassifyArchive(objects[li]))

\* Object::Tbd(tbd) => dylibs.push(Dylib::Tbd(tbd))
IngestTbd ==
    /\ cli_pc = "ingest"
    /\ objects[li].kind = "Tbd"
    /\ Classified(Pushed(<<>>, <<>>, <<objects[li].tbd>>))

IngestNext ==
    \/ IngestForeign
    \/ IngestFat
    \/ IngestBinary
    \/ IngestArchive
    \/ IngestTbd

SpecIngest == IngestInit /\ [][IngestNext]_vars

(***************************************************************************)
(* Claims about the classification.                                        *)
(***************************************************************************)
\* C19: from a fat container only a slice whose declared CPU type is
\* CPU_TYPE_ARM64 is selected, so no object of another CPU type becomes an
\* owned object, and a container without such a slice ends the run.
C19_OnlyArm64SliceSelected ==
    /\ \A k \in 1..Len(objs) : objs[k].cputype = CPU_TYPE_ARM64
    /\ \A k \in 1..(li - 1) :
          objects[k].kind = "Fat" =>
              \E s \in 1..Len(objects[k].arches) :
                  objects[k].arches[s].cputype = CPU_TYPE_ARM64

\* The archive the loop body extracts from input k: the input itself, or
\* what the selected slice of a fat container holds.
ExtractedArchive(k) ==
    IF objects[k].kind = "Archive" THEN Some(objects[k].members)
    ELSE IF objects[k].kind = "Fat" /\ ArchPosition(objects[k].arches) # 0
    THEN LET entry == objects[k].arches[ArchPosition(objects[k].arches)].entry
         IN  IF entry.kind = "Archive" THEN Some(entry.members) ELSE None
    ELSE None

\* C24: a member of a top-level archive, or of the archive in the selected
\* slice of a fat container, that is not a relocatable object ends the run:
\* the loop never goes past an archive with such a member.
C24_NonObjectMemberFails ==
    \A k \in 1..(li - 1) :
        ExtractedArchive(k).some =>
            \A m \in 1..Len(ExtractedArchive(k).value) :
                ExtractedArchive(k).value[m].filetype = MH_OBJECT

\* The Mach-O file the loop body classifies for the current input: a
\* standalone binary, or the file in the selected slice of a fat container.
ClassifiedMachO ==
    IF objects[li].kind = "Binary" THEN Some(objects[li].macho)
    ELSE IF objects[li].kind = "Fat" /\ ArchPosition(objects[li].arches) # 0
    THEN LET entry == objects[li].arches[ArchPosition(objects[li].arches)].entry
         IN  IF entry.kind = "MachO" THEN Some(entry.macho) ELSE None
    ELSE None

\* C25: every Mach-O input, standalone or selected from a fat container, is
\* classified by its filetype: a relocatable object is pushed to the symbol
\* sources, an executable or dylib to the dynamic dependencies, and any
\* other filetype ends the run.
C25_FiletypePolicy ==
    [][(cli_pc = "ingest" /\ ClassifiedMachO.some) =>
          LET filetype == ClassifiedMachO.value.filetype
          IN  IF filetype = MH_OBJECT
              THEN /\ Len(objs') + Len(unowned_objs')
                        = Len(objs) + Len(unowned_objs) + 1
                   /\ dylibs' = dylibs
              ELSE IF filetype \in {MH_EXECUTE, MH_DYLIB}
              THEN /\ Len(dylibs') = Len(dylibs) + 1
                   /\ objs' = objs /\ unowned_objs' = unowned_objs
              ELSE cli_pc' = "panicked"]_vars


\* The path the claim names for directory d and extension e: d/lib<name>.<e>
ExpectedCandidate(prefix, library_name, extension) ==
    File(prefix, <<"l", "i", "b">> \o library_name \o <<".">> \o extension)

\* The discovery over the paths the claim names, in the order of the code.
ExpectedDiscovery ==
    FirstExisting(files,
        Concat([p \in 1..Len(library_search_paths) |->
                  [e \in 1..Len(extensions) |->
                     ExpectedCandidate(library_search_paths[p],
                                       args.value.libraries[1],
                                       extensions[e])]]))

\* C29: for every library name, with or without a '.', the file whose
\* existence is tested in directory d for extension e is d/lib<name>.<e>:
\* what the discovery appends is the first of these files that exists, and
\* nothing when none exists.
C29_CandidateIsLibNameDotExt ==
    cli_pc = "read" =>
        object_files = args.value.object_files
            \o (IF ExpectedDiscovery.some THEN <<ExpectedDiscovery.value>>
                ELSE <<>>)


(***************************************************************************)
(* Claims about the order of the two symbol loops and about what the later  *)
(* stages leave alone.                                                      *)
(***************************************************************************)
OwnedSymbols == Flatten(objs, TRUE, 1)

\* The loop over the owned objects runs first and to its end: main starts in
\* it when an owned object has a symbol, never enters it from elsewhere, and
\* leaves it only from the last owned symbol.
OwnedProcessedFirst ==
    /\ (OwnedSymbols # <<>> => pc = "owned")
    /\ [][pc' = "owned" => pc = "owned"]_vars
    /\ [][(pc = "owned" /\ pc' # "owned")
             => NumProcessed + 1 = Len(OwnedSymbols)]_vars

\* Name x is defined by an owned object and by a standalone object.
DefinedOnBothSides(x) ==
    /\ \E k \in DefIdx(x) : InputStream[k].object.owned
    /\ \E k \in DefIdx(x) : ~InputStream[k].object.owned

\* After the loops the entry of a name with weak definitions only, on both
\* sides, is an owned object's definition.
OwnedWeakWins ==
    \A x \in Names :
        (~InSymbolLoops /\ OnlyWeakDefinitions(x) /\ DefinedOnBothSides(x))
        => /\ x \in DOMAIN symbols
           /\ IsDefinition(symbols[x])
           /\ symbols[x].object.owned

\* C27: every symbol of every owned object is processed before any symbol
\* of a standalone object, and so, when the definitions of a name are all
\* weak, the stored one is an owned object's and not a standalone object's.
C27_OwnedBeforeStandalone == OwnedProcessedFirst /\ []OwnedWeakWins


\* C28: once the symbol loops have ended the undefined names only shrink:
\* every step of the dylib export resolver leaves a subset of them, and
\* neither that resolver nor the segment grouping nor the gate changes the
\* symbol table; inside the loops, processing a definition adds no name to
\* the undefined names.
C28_UndefinedOnlyShrinks ==
    [][/\ pc \in {"dylibs", "segments", "gate"}
            => /\ undefined_symbols' \subseteq undefined_symbols
               /\ symbols' = symbols
       /\ (InSymbolLoops /\ IsDefinition(CurInput))
            => undefined_symbols' \subseteq undefined_symbols]_vars

\* A tbd descriptor has just resolved a name that an owned object
\* references and no object defines.
C28_Witness ==
    /\ event.kind = "resolve"
    /\ \E d \in 1..Len(dylibs), n \in Names :
          /\ dylibs[d].kind = "tbd"
          /\ n \in Range(dylibs[d].exports)
          /\ \E k \in 1..Len(OwnedSymbols) :
                OwnedSymbols[k].name = n /\ IsReference(OwnedSymbols[k])
          /\ n \notin DOMAIN symbols
          /\ n \notin undefined_symbols


\* C30: after the symbol loops, the entry of every name that some processed
\* object defines is a definition of that name, and a strong one when a
\* strong definition was processed: no symbol processed earlier keeps a
\* definition out of the table.
C30_DefinedNamesHoldDefinitions ==
    \A x \in Names :
        (~InSymbolLoops /\ Defined(x))
        => /\ x \in DOMAIN symbols
           /\ symbols[x].name = x
           /\ IsDefinition(symbols[x])
           /\ (\E k \in DefIdx(x) : ~InputStream[k].nlist.weak)
                 => ~symbols[x].nlist.weak


(***************************************************************************)
(* Segment grouping over symbols of every kind: the pipeline of Spec with   *)
(* inputs that vary the section index, the stab flag and the sections of    *)
(* the owning object.                                                       *)
(***************************************************************************)
\* Most symbols in the objects of one run.
MaxSegInput == 2

TextAndData ==
    <<[segname |-> "__TEXT", sectname |-> "__text"],
      [segname |-> "__DATA", sectname |-> "__data"]>>

\* An undefined reference has section 0.  A definition is absolute (section
\* 0) or lies in section 1 or 2, and is a debug/stab entry or not.
SegNlists ==
    {Nlist(0, TRUE, FALSE, FALSE)} \cup
    {Nlist(s, FALSE, FALSE, stab) : s \in 0..Len(TextAndData), stab \in BOOLEAN}

SegSymbols == {[name |-> n, nlist |-> nl] : n \in Names, nl \in SegNlists}

\* Objects with exactly n symbols of distinct names, with the first section
\* or both.
SegObjects(n) ==
    {[symbols |-> s, sections |-> SubSeq(TextAndData, 1, k)] :
        s \in {t \in [1..n -> SegSymbols] :
                 \A i, j \in 1..n : t[i].name = t[j].name => i = j},
        k \in 1..Len(TextAndData)}

RECURSIVE SegObjLists(_)
SegObjLists(b) ==
    {<<>>} \cup
    UNION {{<<o>> \o r : o \in SegObjects(k), r \in SegObjLists(b - k)} :
             k \in 1..b}

SegDylibs ==
    {<<>>, <<TbdDylib("libdep", <<>>, <<"_main">>, <<>>)>>, <<MachODylib>>}

SegInit ==
    /\ objs \in SegObjLists(MaxSegInput)
    /\ unowned_objs \in SegObjLists(MaxSegInput - ObjListSize(objs))
    /\ dylibs \in SegDylibs
    /\ pc = StartPos.pc /\ oi = StartPos.oi /\ si = StartPos.si
    /\ TypeStart
    /\ TbdIdle /\ ArchIdle /\ ParserIdle /\ CliIdle

SpecSeg == SegInit /\ [][Next]_vars

\* The stored symbols the claim puts in the segment map.
Groupable ==
    {n \in DOMAIN symbols : /\ IsDefinition(symbols[n])
                            /\ ~symbols[n].nlist.stab
                            /\ symbols[n].nlist.n_sect # 0}

\* C26: the segment map holds exactly the stored symbols that are defined,
\* not debug/stab and of a non-zero section index, each under the segment
\* and section names of the section at 0-based position (section index - 1)
\* of its owning object; no stab symbol and no symbol of section index 0 is
\* in any bucket.
C26_SegmentMapMembers ==
    pc \in {"gate", "done"} =>
        /\ {t[3] : t \in segments} = Groupable
        /\ \A t \in segments :
              LET section == ObjectOf(symbols[t[3]].object)
                               .sections[(symbols[t[3]].nlist.n_sect - 1) + 1]
              IN  t[1] = section.segname /\ t[2] = section.sectname


(***************************************************************************)
(* src/src/arg_parser.rs: the Arguments parser.                            *)
(*                                                                         *)
(* An OsString is a record: whether it is UTF-8, and its characters.  The  *)
(* values are parsed as u32, as in the tests of the file.                  *)
(***************************************************************************)
\* Most items (a single argument, or an option with its value) of the
\* vector given to from_vec.
MaxItems == 3

Utf8(chars) == [utf8 |-> TRUE, chars |-> chars]
NonUtf8 == [utf8 |-> FALSE, chars |-> <<"?">>]

\* Vec::remove(idx), idx counted from 0.
Remove(v, idx) == SubSeq(v, 1, idx) \o SubSeq(v, idx + 2, Len(v))

\* index_of: position of the first argument equal to the key.
index_of(v, key) ==
    LET hits == {i \in 1..Len(v) : v[i] = Utf8(key)}
    IN  IF key # <<>> /\ hits # {}
        THEN Some((CHOOSE i \in hits : \A j \in hits : i <= j) - 1)
        ELSE None

\* starts_with_short_prefix: false for a key that starts with "--".
starts_with_short_prefix(text, prefix) ==
    IF starts_with(prefix, <<"-", "-">>) THEN FALSE
    ELSE text.utf8 /\ starts_with(text.chars, prefix)

\* index_of2: position of the first argument that starts with the key.
index_of2(v, key) ==
    LET hits == {i \in 1..Len(v) : starts_with_short_prefix(v[i], key)}
    IN  IF key # <<>> /\ hits # {}
        THEN Some((CHOOSE i \in hits : \A j \in hits : i <= j) - 1)
        ELSE None

\* ends_with(text, c)
ends_with(text, c) == text # <<>> /\ text[Len(text)] = c

Quotes == {"\"", "'"}

Found(value, kind, idx) == [value |-> value, kind |-> kind, idx |-> idx]

\* The value glued to the key in the argument at idx: -Kvalue, quoted or
\* not; an '=' after the key, an unclosed quote or an empty value is an
\* error.
GluedValue(v, key, idx) ==
    LET value == v[idx + 1].chars
        start == Len(key)
        end   == Len(value)
        first == IF start < end THEN value[start + 1] ELSE ""
        quoted == first \in Quotes
        start2 == IF quoted THEN start + 1 ELSE start
        closed == ends_with(SubSeq(value, start2 + 1, end), first)
        end2  == IF quoted /\ closed THEN end - 1 ELSE end
    IN  IF ~v[idx + 1].utf8 THEN Err("NonUtf8Argument")
        ELSE IF first = "=" THEN Err("OptionWithoutAValue")
        ELSE IF quoted /\ ~closed THEN Err("OptionWithoutAValue")
        ELSE IF end2 - start2 = 0 THEN Err("OptionWithoutAValue")
        ELSE Ok(Some(Found(SubSeq(value, start2 + 1, end2),
                           "SingleArgument", idx)))

\* find_value: the key followed by its value in the next argument, else
\* the first argument that starts with the key.
find_value(v, key) ==
    IF index_of(v, key).some
    THEN LET idx == index_of(v, key).value
         IN  IF idx + 1 >= Len(v) THEN Err("OptionWithoutAValue")
             ELSE IF ~v[idx + 2].utf8 THEN Err("NonUtf8Argument")
             ELSE Ok(Some(Found(v[idx + 2].chars, "TwoArguments", idx)))
    ELSE IF index_of2(v, key).some
    THEN GluedValue(v, key, index_of2(v, key).value)
    ELSE Ok(None)

Digits == <<"0", "1", "2", "3", "4", "5", "6", "7", "8", "9">>

DigitValue(c) == (CHOOSE d \in 1..Len(Digits) : Digits[d] = c) - 1

RECURSIVE Decimal(_)
Decimal(s) ==
    IF s = <<>> THEN 0
    ELSE 10 * Decimal(SubSeq(s, 1, Len(s) - 1)) + DigitValue(s[Len(s)])

\* <u32 as FromStr>::from_str: decimal digits after an optional '+'.  The
\* values of the inputs have two digits at most, far below the overflow of
\* u32.
from_str(s) ==
    LET digits == IF s # <<>> /\ Head(s) = "+" THEN Tail(s) ELSE s
    IN  IF digits = <<>>
           \/ \E i \in 1..Len(digits) : digits[i] \notin Range(Digits)
        THEN Err("InvalidDigit")
        ELSE Ok(Decimal(digits))

\* What a method leaves: its result and the arguments.
Left(result, v) == [result |-> result, arguments |-> v]

\* contains_impl with a plausible slip: the flag is found but not removed.
contains_impl_KeepsFlag(v, key) ==
    IF index_of(v, key).some THEN Left(TRUE, v) ELSE Left(FALSE, v)

\* contains_impl
contains_impl(v, key) ==
    IF index_of(v, key).some
    THEN Left(TRUE, Remove(v, index_of(v, key).value))
    ELSE Left(FALSE, v)

\* opt_value_from_fn_impl with a plausible slip: the key is removed before
\* the value is parsed.
opt_value_from_fn_impl_RemovesFirst(v, key) ==
    LET found == find_value(v, key)
    IN  IF found.kind = "err" THEN Left(found, v)
        ELSE IF ~found.value.some THEN Left(Ok(None), v)
        ELSE LET parsed == from_str(found.value.value.value)
                 idx == found.value.value.idx
                 rest == Remove(v, idx)
             IN  IF parsed.kind = "ok"
                 THEN Left(Ok(Some(parsed.value)),
                           IF found.value.value.kind = "TwoArguments"
                           THEN Remove(rest, idx) ELSE rest)
                 ELSE Left(Err("Utf8ArgumentParsingFailed"), rest)

\* opt_value_from_fn_impl: the arguments are removed only when the value
\* was found and parsed.
opt_value_from_fn_impl(v, key) ==
    LET found == find_value(v, key)
    IN  IF found.kind = "err" THEN Left(found, v)
        ELSE IF ~found.value.some THEN Left(Ok(None), v)
        ELSE LET parsed == from_str(found.value.value.value)
                 idx == found.value.value.idx
             IN  IF parsed.kind = "ok"
                 THEN Left(Ok(Some(parsed.value)),
                           IF found.value.value.kind = "TwoArguments"
                           THEN Remove(Remove(v, idx), idx)
                           ELSE Remove(v, idx))
                 ELSE Left(Err("Utf8ArgumentParsingFailed"), v)

\* values_from_fn: opt_value_from_fn until it returns None or an error.
RECURSIVE values_from_fn_loop(_, _, _)
values_from_fn_loop(v, key, values) ==
    LET r == opt_value_from_fn_impl(v, key)
    IN  IF r.result.kind = "err" THEN r
        ELSE IF ~r.result.value.some THEN Left(Ok(values), r.arguments)
        ELSE values_from_fn_loop(r.arguments, key,
                                 Append(values, r.result.value.value))

values_from_fn(v, key) == values_from_fn_loop(v, key, <<>>)

(***************************************************************************)
(* The parser as a state machine: from_vec, then calls in any order.       *)
(***************************************************************************)
KeyV == <<"-", "v">>
KeyW == <<"-", "w">>
KeyOther == <<"-", "-", "o", "t", "h", "e", "r">>

Keys == {KeyV, KeyW, KeyOther}

\* The items a command line is made of.
Items ==
    {<<Utf8(KeyV)>>,
     <<Utf8(KeyW)>>,
     <<Utf8(KeyW), Utf8(<<"1", "0">>)>>,
     <<Utf8(KeyOther)>>,
     <<Utf8(<<"q">>)>>,
     <<NonUtf8>>,
     <<Utf8(KeyW \o <<"2", "0">>)>>,
     <<Utf8(KeyW \o <<"=", "5">>)>>,
     <<Utf8(KeyW \o <<"'", "7", "'">>)>>,
     <<Utf8(KeyW \o <<"'", "7">>)>>}

ArgVectors ==
    UNION {{Concat(items) : items \in [1..k -> Items]} : k \in 0..MaxItems}

ParserInit ==
    /\ argv \in ArgVectors
    /\ arguments = argv
    /\ returned = NoCall
    /\ MainIdle /\ TbdIdle /\ ArchIdle /\ CliIdle

\* args.contains(key)
Contains ==
    \E key \in Keys :
        LET r == contains_impl(arguments, key)
        IN  /\ arguments' = r.arguments
            /\ returned' = [method |-> "contains", key |-> key,
                            result |-> r.result]
            /\ UNCHANGED <<argv, mainVars, tbdVars, archVars, cliVars>>

\* args.opt_value_from_str(key)
OptValueFromStr ==
    \E key \in Keys :
        LET r == opt_value_from_fn_impl(arguments, key)
        IN  /\ arguments' = r.arguments
            /\ returned' = [method |-> "opt_value_from_str", key |-> key,
                            result |-> r.result]
            /\ UNCHANGED <<argv, mainVars, tbdVars, archVars, cliVars>>

\* args.values_from_str(key)
ValuesFromStr ==
    \E key \in Keys :
        LET r == values_from_fn(arguments, key)
        IN  /\ arguments' = r.arguments
            /\ returned' = [method |-> "values_from_str", key |-> key,
                            result |-> r.result]
            /\ UNCHANGED <<argv, mainVars, tbdVars, archVars, cliVars>>

ParserNext == Contains \/ OptValueFromStr \/ ValuesFromStr

SpecParser == ParserInit /\ [][ParserNext]_vars


(***************************************************************************)
(* Claims about the Arguments parser.                                      *)
(***************************************************************************)
\* How many arguments are the flag.
Occurrences(v, key) == Cardinality({i \in 1..Len(v) : v[i] = Utf8(key)})

\* C21: contains consumes one occurrence of the flag per successful call:
\* while the flag is present a call returns true and removes exactly one
\* occurrence, leaving every other argument in place and in order; once no
\* occurrence is left every call returns false and changes nothing.  A flag
\* present n times therefore answers true to the first n calls and false
\* to all later ones.
C21_ContainsConsumesOne ==
    [][returned'.method = "contains" =>
          LET key == returned'.key
          IN  IF Occurrences(arguments, key) > 0
              THEN /\ returned'.result = TRUE
                   /\ Occurrences(arguments', key)
                        = Occurrences(arguments, key) - 1
                   /\ \E i \in 1..Len(arguments) :
                         /\ arguments[i] = Utf8(key)
                         /\ arguments' = Remove(arguments, i - 1)
              ELSE /\ returned'.result = FALSE
                   /\ arguments' = arguments]_vars

\* -v was given twice among other arguments; two calls have consumed both
\* and the call that followed returned false.
C21_Witness ==
    /\ Occurrences(argv, KeyV) = 2
    /\ Len(argv) = 3
    /\ returned = [method |-> "contains", key |-> KeyV, result |-> FALSE]
    /\ Len(arguments) = 1

\* C22: when opt_value_from_str returns an error, because the option has no
\* value or because the value does not parse, the arguments are exactly as
\* they were before the call.
C22_ErrorLeavesArguments ==
    [][(returned'.method = "opt_value_from_str"
          /\ returned'.result.kind = "err")
       => arguments' = arguments]_vars

\* -w q was given: the call failed on the value, and both are still there.
C22_Witness ==
    /\ returned.method = "opt_value_from_str"
    /\ returned.key = KeyW
    /\ returned.result = Err("Utf8ArgumentParsingFailed")
    /\ arguments = argv
    /\ \E i \in 1..(Len(arguments) - 1) :
          arguments[i] = Utf8(KeyW) /\ arguments[i + 1] = Utf8(<<"q">>)

\* The occurrences of a key read from left to right: the key followed by
\* its value, or the key with its value glued to it.  The values in this
\* order, the arguments that belong to no occurrence, and whether every
\* occurrence has a value that parses.
RECURSIVE InOrder(_, _)
InOrder(v, key) ==
    IF v = <<>> THEN [values |-> <<>>, rest |-> <<>>, ok |-> TRUE]
    ELSE LET glued == starts_with_short_prefix(Head(v), key)
                         /\ Head(v) # Utf8(key)
             found == IF Head(v) = Utf8(key) THEN find_value(v, key)
                      ELSE GluedValue(v, key, 0)
             taken == IF Head(v) = Utf8(key) THEN 2 ELSE 1
         IN  IF Head(v) # Utf8(key) /\ ~glued
             THEN LET r == InOrder(Tail(v), key)
                  IN  [r EXCEPT !.rest = <<Head(v)>> \o @]
             ELSE IF found.kind = "err"
                     \/ from_str(found.value.value.value).kind = "err"
             THEN [values |-> <<>>, rest |-> v, ok |-> FALSE]
             ELSE LET r == InOrder(SubSeq(v, taken + 1, Len(v)), key)
                  IN  [r EXCEPT !.values =
                         <<from_str(found.value.value.value).value>> \o @]

\* C23: values_from_str returns the values of every occurrence of the key
\* in the order of the argument list, removes the keys and values it has
\* consumed, leaves the other arguments in place, and returns an empty Vec
\* when the key does not occur.
C23_ValuesInOrder ==
    [][(returned'.method = "values_from_str" /\ returned'.result.kind = "ok")
       => LET expected == InOrder(arguments, returned'.key)
          IN  /\ expected.ok
              /\ returned'.result.value = expected.values
              /\ arguments' = expected.rest]_vars
====
